---- MODULE Spec2Model ----
(***************************************************************************)
(* State-machine model of the terminal ASCII video player:                 *)
(*   src/video_to_ascii/player.py     TerminalPlayer                       *)
(*   src/video_to_ascii/converter.py  AsciiConverter                       *)
(* Frames are abstracted to their number of text lines; the terminal is    *)
(* abstracted to the outcome of each of the three size probes.             *)
(***************************************************************************)
EXTENDS Integers, Sequences, FiniteSets, TLC

VARIABLES
    probe,            \* environment: what each size probe would answer now
    terminal_width,   \* self.terminal_width
    terminal_height,  \* self.terminal_height
    pc,               \* position of the caller inside play / play_with_progress
    mode,             \* which entry point was called: "none", "play", "progress"
    outcome,          \* how the call ended
    frames,           \* the frame list handed to play (line count of each frame)
    loop,             \* play's loop flag
    total_frames,     \* local total_frames
    max_lines,        \* local max_lines
    frame_index,      \* local frame_index / enumerate index i
    rendered,         \* history: frame indices written to the screen, in order
    drawn,            \* history: the last redraw (lines written, sizes, status line)
    sleeps,           \* history: number of time.sleep calls started
    interrupted,      \* history: a KeyboardInterrupt has been delivered
    intr_at,          \* history: where the latest interrupt was delivered
    smp,              \* history: the latest get_terminal_size call
    negotiated,       \* the latest calculate_frame_size call and what it returned
    conv,             \* the AsciiConverter: charset, contrast, its latest glyph lookup
    converted,        \* the latest convert_frame / convert_image call
    fps,              \* self.fps, counted in halves of a frame per second
    frame_duration,   \* self.frame_duration, a fraction of a second
    fps_call,         \* history: the latest set_fps call
    slept             \* history: the argument of the latest time.sleep

vars == <<probe, terminal_width, terminal_height, pc, mode, outcome, frames, loop,
          total_frames, max_lines, frame_index, rendered, drawn, sleeps,
          interrupted, intr_at, smp, negotiated, conv, converted, fps,
          frame_duration, fps_call, slept>>

playerVars == <<pc, mode, outcome, frames, loop, total_frames, max_lines,
                frame_index, rendered, drawn, sleeps, interrupted, intr_at, slept>>

rateVars == <<fps, frame_duration, fps_call>>

(***************************************************************************)
(* Bounds of the model                                                     *)
(***************************************************************************)
MaxFrames == 3
MaxLines == 3
MaxRenders == 5
MaxCols == 120
MaxRows == 40
MaxRamp == 12
MaxRate == 130
MaxContrast == 5
MaxWidth == 40

(***************************************************************************)
(* Terminal size probes                                                    *)
(***************************************************************************)
\* shutil.get_terminal_size(fallback=(80, 24)) and the initial field values
FallbackCols == 80
FallbackRows == 24

Answer(k, x, y) == [kind |-> k, a |-> x, b |-> y]

\* shutil.get_terminal_size: answers (columns, lines), answers its fallback when
\* the size cannot be queried, or raises AttributeError / OSError.
DirectAnswers ==
    { Answer("raise", 0, 0), Answer("unavailable", 0, 0), Answer("ok", 5, 3) }

\* popen('stty size') / popen('tput lines && tput cols'): two integers
\* (rows, cols), output that is not two tokens or popen failing ("fail"), or
\* two tokens that int() rejects ("malformed").
SttyAnswers ==
    { Answer("fail", 0, 0), Answer("malformed", 0, 0),
      Answer("ok", 0, 0), Answer("ok", 2, 6) }

TputAnswers ==
    { Answer("fail", 0, 0), Answer("malformed", 0, 0), Answer("ok", 4, 7) }

Probes == [direct : DirectAnswers, stty : SttyAnswers, tput : TputAnswers]

\* The probe answers met during playback: a terminal of 80x24 or 5x3 by the
\* direct query, and external commands that fail or answer.
PlayProbes ==
    [direct : {Answer("ok", 80, 24), Answer("ok", 5, 3)},
     stty : {Answer("fail", 0, 0), Answer("ok", 2, 6)},
     tput : {Answer("fail", 0, 0), Answer("ok", 4, 7)}]

\* Points of _update_terminal_size at which a KeyboardInterrupt can arrive.
SampleIntr == {"none", "direct", "stty", "tput"}

\* get_size(): stty first, then tput, else None.  A KeyboardInterrupt inside
\* either popen is swallowed by the bare except around it.
get_size(p, intr) ==
    IF intr # "stty" /\ p.stty.kind = "ok"
    THEN [some |-> TRUE, rows |-> p.stty.a, cols |-> p.stty.b]
    ELSE IF intr # "tput" /\ p.tput.kind = "ok"
    THEN [some |-> TRUE, rows |-> p.tput.a, cols |-> p.tput.b]
    ELSE [some |-> FALSE, rows |-> 0, cols |-> 0]

\* The tput probe only runs when stty did not return a pair.
IntrPossible(p, intr) ==
    intr = "tput" => p.stty.kind # "ok"

\* Lines 31-36: the shutil block.  An interrupt here is not caught.
DirectStep(p, intr, w, h) ==
    IF intr = "direct" THEN [w |-> w, h |-> h, raised |-> TRUE]
    ELSE IF p.direct.kind = "ok"
    THEN [w |-> p.direct.a, h |-> p.direct.b, raised |-> FALSE]
    ELSE IF p.direct.kind = "unavailable"
    THEN [w |-> FallbackCols, h |-> FallbackRows, raised |-> FALSE]
    ELSE [w |-> w, h |-> h, raised |-> FALSE]

\* Lines 38-67: the stty / tput block; "if result:" is true of every pair.
ExternalStep(p, intr, d) ==
    LET result == get_size(p, intr)
    IN  IF d.raised THEN d
        ELSE IF result.some
        THEN [w |-> result.cols, h |-> result.rows, raised |-> FALSE]
        ELSE d

\* A sampling in which the first probe that succeeds wins.
update_first_success(p, intr, w, h) ==
    LET d == DirectStep(p, intr, w, h)
    IN  IF p.direct.kind = "ok" /\ intr # "direct" THEN d ELSE ExternalStep(p, intr, d)

\* _update_terminal_size as a whole: the stored size after the call and whether
\* a KeyboardInterrupt left the method.
update_terminal_size(p, intr, w, h) ==
    ExternalStep(p, intr, DirectStep(p, intr, w, h))

(***************************************************************************)
(* Frames                                                                  *)
(***************************************************************************)
\* A frame is the number of lines frame.split('\n') yields (at least 1).
FrameLists == { [i \in 1..n |-> l] : n \in 0..MaxFrames, l \in 1..MaxLines }

\* len(lines) after "if len(lines) > max_lines: lines = lines[:max_lines]",
\* with Python's slice semantics for a negative bound.
ClipLines(n, m) ==
    IF n > m
    THEN IF m >= 0 THEN m
         ELSE IF n + m > 0 THEN n + m ELSE 0
    ELSE n

NoDraw == [lines |-> 0, rows |-> 0, cols |-> 0, index |-> 0, total |-> 0,
           live_cols |-> 0, live_rows |-> 0]
NoSample == [done |-> FALSE, probe |-> [direct |-> Answer("raise", 0, 0),
                                         stty |-> Answer("fail", 0, 0),
                                         tput |-> Answer("fail", 0, 0)],
             intr |-> "none", w |-> 0, h |-> 0, raised |-> FALSE]

(***************************************************************************)
(* calculate_frame_size                                                    *)
(***************************************************************************)
MinWidth == 20
MinHeight == 10

\* The terminal widths w <= 329 whose double-precision product w * 0.7 lies
\* just below the integer 7w/10, so that int() truncates one lower.
RoundsBelow == {90, 170, 180}

\* int(self.terminal_width * 0.7), for 0 <= w <= 329
Pct70(w) == IF w \in RoundsBelow THEN (7 * w) \div 10 - 1 ELSE (7 * w) \div 10

\* int(self.terminal_height * 0.9), for h >= 0
Pct90(h) == (9 * h) \div 10

\* int(width * aspect_ratio * 0.5) with aspect_ratio = video_height / video_width
HeightFor(width, video_width, video_height) ==
    (width * video_height) \div (2 * video_width)

\* int(height / (aspect_ratio * 0.5))
WidthFor(height, video_width, video_height) ==
    (2 * height * video_width) \div video_height

Max(a, b) == IF a >= b THEN a ELSE b
Min(a, b) == IF a <= b THEN a ELSE b

\* Lines 99-118, on the size that line 97 stored.
FrameSizeNoCeiling(w, h, video_width, video_height) ==
    LET width == Pct70(w)
        height == HeightFor(width, video_width, video_height)
    IN  [width |-> Max(width, MinWidth), height |-> Max(height, MinHeight)]

\* A negotiation that recomputes the width from the floored height.
FrameSizeRecomputed(w, h, video_width, video_height) ==
    LET width == Pct70(w)
        height == HeightFor(width, video_width, video_height)
        max_height == Pct90(h)
        height2 == IF height > max_height THEN max_height ELSE height
        height3 == Max(height2, MinHeight)
        width2 == IF height3 # height
                  THEN WidthFor(height3, video_width, video_height) ELSE width
    IN  [width |-> Max(width2, MinWidth), height |-> height3]

FrameSize(w, h, video_width, video_height) ==
    LET width == Pct70(w)
        height == HeightFor(width, video_width, video_height)
        max_height == Pct90(h)
        over == height > max_height
        height2 == IF over THEN max_height ELSE height
        width2 == IF over THEN WidthFor(height2, video_width, video_height) ELSE width
    IN  [width |-> Max(width2, MinWidth), height |-> Max(height2, MinHeight)]

\* Source sizes (video_width, video_height) handed to calculate_frame_size.
Sources == { <<1920, 1080>>, <<640, 480>>, <<1, 1>>, <<9, 16>>, <<4, 1>>, <<1, 8>> }

\* The terminals of the frame-size specification: every size up to
\* MaxCols x MaxRows, answered by the direct query.
SizeProbes ==
    [direct : {Answer("ok", c, r) : c \in 1..MaxCols, r \in 1..MaxRows},
     stty : {Answer("fail", 0, 0)},
     tput : {Answer("fail", 0, 0)}]

NoSize == [done |-> FALSE, video_width |-> 0, video_height |-> 0,
           width |-> 0, height |-> 0]

(***************************************************************************)
(* AsciiConverter                                                          *)
(***************************************************************************)
DEFAULT_CHARSET == <<" ", ".", ":", "-", "=", "+", "*", "#", "%", "@">>

Glyphs == <<"a", "b", "c", "d", "e", "f", "g", "h", "i", "j", "k", "l", "m",
            "n", "o", "p", "q", "r", "s", "t", "u", "v", "w", "x", "y", "z">>

\* The charset arguments: the empty string and ramps of 1..MaxRamp glyphs.
Charsets == { SubSeq(Glyphs, 1, n) : n \in 0..MaxRamp }

\* Contrast multipliers are counted in halves: 2 is contrast 1.0.
Identity == 1 + 1

\* The contrast arguments: -1.0, -0.5, 0, 0.5, 1.0, ... MaxContrast / 2.
Contrasts == (0 - 2)..MaxContrast

\* __init__: self.charset = charset or self.DEFAULT_CHARSET; self.contrast
NewConverter(charset, contrast) ==
    [charset |-> IF charset = <<>> THEN DEFAULT_CHARSET ELSE charset,
     contrast |-> contrast,
     done |-> FALSE, gray_value |-> 0, char_index |-> 0, char |-> "",
     sampled |-> FALSE, luma |-> 0, adjusted |-> 0]

CharIndexNoClamp(gray_value, n) == (gray_value * n) \div 255

CharIndexInverted(gray_value, n) == (n - 1) - Min((gray_value * n) \div 256, n - 1)

\* Lines 75-76: min(int(gray_value / 256 * n), n - 1) with n = len(self.charset)
CharIndex(gray_value, n) == Min((gray_value * n) \div 256, n - 1)

\* The same lookup for a value given in halves (a float k or k + 0.5).
HalfCharIndex(halves, n) == Min((halves * n) \div 512, n - 1)

\* Line 77: self.charset[char_index]; an index past the end raises IndexError.
CharAt(charset, char_index) ==
    IF char_index + 1 \in DOMAIN charset THEN charset[char_index + 1]
    ELSE "IndexError"

Clip(x, lo, hi) == IF x < lo THEN lo ELSE IF x > hi THEN hi ELSE x

\* Lines 54-56 and 104-106, on one sample of the uint8 array, the result in
\* halves.  pixels - 128 is computed in uint8 and wraps modulo 256; the
\* product with the float contrast, the sum and np.clip are in float64.
Adjust(luma, contrast) ==
    IF contrast # Identity
    THEN Clip(((luma - 128) % 256) * contrast + 256, 0, 510)
    ELSE 2 * luma

(***************************************************************************)
(* convert_frame / convert_image: the size of the result                   *)
(***************************************************************************)
\* A target height rounded to the nearest integer, halves to even (round()).
TargetHeightRounded(width, img_width, img_height) ==
    LET n == width * img_height
        d == 2 * img_width
        q == n \div d
        r == n % d
    IN  IF 2 * r > d THEN q + 1
        ELSE IF 2 * r < d THEN q
        ELSE IF q % 2 = 0 THEN q ELSE q + 1

\* Lines 41-42 and 93-94: int(width * (img.height / img.width) * 0.5)
TargetHeight(width, img_width, img_height) ==
    (width * img_height) \div (2 * img_width)

\* Lines 45-64 and 97-114: img.resize((width, height)) raises ValueError
\* unless both are positive; otherwise one line of width glyphs per row.
Converted(entry, width, img_width, img_height) ==
    LET height == TargetHeight(width, img_width, img_height)
        bad == width <= 0 \/ height <= 0
    IN  [done |-> TRUE, entry |-> entry, img_width |-> img_width,
         img_height |-> img_height, width |-> width, height |-> height,
         raised |-> bad,
         lines |-> IF bad THEN 0 ELSE height,
         line_len |-> IF bad THEN 0 ELSE width]

NoConversion == [done |-> FALSE, entry |-> "none", img_width |-> 0,
                 img_height |-> 0, width |-> 0, height |-> 0, raised |-> FALSE,
                 lines |-> 0, line_len |-> 0]

(***************************************************************************)
(* Frame rate.  Rates are counted in halves of a frame per second, and an  *)
(* interval is the fraction num / den of a second.                         *)
(***************************************************************************)
Hz(n) == 2 * n

\* The fps arguments: -2.0, -1.5, ... up to MaxRate / 2.
Rates == (0 - 4)..MaxRate

\* 1.0 / fps
Interval(rate) == [num |-> 2, den |-> rate]

ClampRateAbove(rate) == Min(rate, Hz(60))

\* Line 235: max(1.0, min(fps, 60.0))
ClampRate(rate) == Max(Hz(1), Min(rate, Hz(60)))

NoRateCall == [done |-> FALSE, requested |-> 0]
NoSleep == [num |-> 0, den |-> 0]

(***************************************************************************)
(* Initial state: a TerminalPlayer right after __init__                    *)
(***************************************************************************)
Constructed(p) == update_terminal_size(p, "none", FallbackCols, FallbackRows)

InitWith(P, C, K, R) ==
    /\ probe \in P
    /\ terminal_width = Constructed(probe).w
    /\ terminal_height = Constructed(probe).h
    /\ pc = "idle"
    /\ mode = "none"
    /\ outcome = "none"
    /\ frames = <<>>
    /\ loop = FALSE
    /\ total_frames = 0
    /\ max_lines = 0
    /\ frame_index = 0
    /\ rendered = <<>>
    /\ drawn = NoDraw
    /\ sleeps = 0
    /\ interrupted = FALSE
    /\ intr_at = "none"
    /\ smp = NoSample
    /\ negotiated = NoSize
    /\ conv \in {NewConverter(c, k) : c \in C, k \in K}
    /\ converted = NoConversion
    /\ fps \in R
    /\ frame_duration = Interval(fps)
    /\ fps_call = NoRateCall
    /\ slept = NoSleep

(***************************************************************************)
(* Environment: the terminal is resized, a probe starts or stops working   *)
(***************************************************************************)
\* The fps arguments of the players that play: the default 30.0, and 120.0.
PlayRates == {Hz(30), Hz(120)}

Init == InitWith(PlayProbes, {<<>>}, {Identity}, PlayRates)

ResizeWithin(P) ==
    /\ probe' \in P \ {probe}
    /\ UNCHANGED <<terminal_width, terminal_height, playerVars, smp, negotiated, conv, converted, rateVars>>

(***************************************************************************)
(* render_frame                                                            *)
(***************************************************************************)
\* Points of render_frame at which a KeyboardInterrupt can arrive: inside
\* _update_terminal_size, or while the frame is being written.
RenderIntr == SampleIntr \cup {"write"}

\* render_frame(frame, max_lines): n is len(frame.split('\n')); given says
\* whether the caller passed max_lines (m).  Yields the stored size, whether a
\* KeyboardInterrupt left the method, and the number of lines written.
render_frame(p, intr, w, h, n, given, m) ==
    LET s == update_terminal_size(p, IF intr = "write" THEN "none" ELSE intr, w, h)
        limit == IF given THEN m ELSE s.h - 1
    IN  [w |-> s.w, h |-> s.h,
         raised |-> s.raised \/ intr = "write",
         lines |-> ClipLines(n, limit)]

Delivered(intr, where) ==
    /\ interrupted' = (interrupted \/ intr # "none")
    /\ intr_at' = IF intr # "none" THEN where ELSE intr_at

(***************************************************************************)
(* play                                                                    *)
(***************************************************************************)
SleepArgRate == [num |-> fps, den |-> 2]

\* Lines 180 and 224: time.sleep(self.frame_duration)
SleepArg == frame_duration

NoFramesNever(total) == total < 0

\* Lines 166 and 200: if total_frames == 0
NoFrames(total) == total = 0

NextIndexSkipping(i) == i + 2

\* Line 183: frame_index += 1
NextIndex(i) == i + 1

\* Lines 165-174: the empty check, the one sampling before the loop (outside
\* the try), max_lines and frame_index.
play(f, lp, intr) ==
    /\ pc = "idle"
    /\ IntrPossible(probe, intr)
    /\ mode' = "play"
    /\ frames' = f
    /\ loop' = lp
    /\ total_frames' = Len(f)
    /\ IF NoFrames(Len(f))
       THEN /\ intr = "none"
            /\ pc' = "done"
            /\ outcome' = "empty"
            /\ UNCHANGED <<terminal_width, terminal_height, max_lines,
                           interrupted, intr_at>>
       ELSE LET s == update_terminal_size(probe, intr, terminal_width, terminal_height)
            IN  /\ terminal_width' = s.w
                /\ terminal_height' = s.h
                /\ Delivered(intr, "sample")
                /\ IF s.raised
                   THEN /\ pc' = "done"
                        /\ outcome' = "propagated"
                        /\ UNCHANGED max_lines
                   ELSE /\ pc' = "render"
                        /\ max_lines' = s.h - 1
                        /\ UNCHANGED outcome
    /\ frame_index' = 0
    /\ UNCHANGED <<probe, rendered, drawn, sleeps, slept, smp, negotiated, conv, converted, rateVars>>

\* Line 177 inside the try: render_frame(frames[frame_index], max_lines=max_lines).
play_render(intr) ==
    /\ pc = "render"
    /\ Len(rendered) < MaxRenders
    /\ IntrPossible(probe, intr)
    /\ LET r == render_frame(probe, intr, terminal_width, terminal_height,
                             frames[frame_index + 1], TRUE, max_lines)
       IN  /\ terminal_width' = r.w
           /\ terminal_height' = r.h
           /\ Delivered(intr, "draw")
           /\ IF r.raised
              THEN /\ pc' = "done"
                   /\ outcome' = "cancelled"
                   /\ UNCHANGED <<rendered, drawn>>
              ELSE /\ pc' = "sleep"
                   /\ rendered' = Append(rendered, frame_index)
                   /\ drawn' = [lines |-> r.lines, rows |-> r.h, cols |-> r.w,
                                index |-> frame_index + 1, total |-> total_frames,
                                live_cols |-> r.w, live_rows |-> r.h]
                   /\ UNCHANGED outcome
    /\ UNCHANGED <<probe, mode, frames, loop, total_frames, max_lines,
                   frame_index, sleeps, slept, smp, negotiated, conv, converted, rateVars>>

\* A sleep whose interrupt does not end the loop.
play_sleep_deaf(intr) ==
    /\ pc = "sleep"
    /\ sleeps' = sleeps + 1
    /\ slept' = SleepArg
    /\ Delivered(IF intr THEN "sleep" ELSE "none", "sleep")
    /\ IF NextIndex(frame_index) >= total_frames
       THEN IF loop
            THEN /\ frame_index' = 0
                 /\ pc' = "render"
                 /\ UNCHANGED outcome
            ELSE /\ frame_index' = NextIndex(frame_index)
                 /\ pc' = "done"
                 /\ outcome' = "exhausted"
       ELSE /\ frame_index' = NextIndex(frame_index)
            /\ pc' = "render"
            /\ UNCHANGED outcome
    /\ UNCHANGED <<probe, terminal_width, terminal_height, mode, frames, loop,
                   total_frames, max_lines, rendered, drawn, smp, negotiated, conv, converted, rateVars>>

\* Lines 180-191: the sleep, the index step, wrap or break, and the handler.
play_sleep(intr) ==
    /\ pc = "sleep"
    /\ sleeps' = sleeps + 1
    /\ slept' = SleepArg
    /\ Delivered(IF intr THEN "sleep" ELSE "none", "sleep")
    /\ IF intr
       THEN /\ pc' = "done"
            /\ outcome' = "cancelled"
            /\ UNCHANGED frame_index
       ELSE IF NextIndex(frame_index) >= total_frames
       THEN IF loop
            THEN /\ frame_index' = 0
                 /\ pc' = "render"
                 /\ UNCHANGED outcome
            ELSE /\ frame_index' = NextIndex(frame_index)
                 /\ pc' = "done"
                 /\ outcome' = "exhausted"
       ELSE /\ frame_index' = NextIndex(frame_index)
            /\ pc' = "render"
            /\ UNCHANGED outcome
    /\ UNCHANGED <<probe, terminal_width, terminal_height, mode, frames, loop,
                   total_frames, max_lines, rendered, drawn, smp, negotiated, conv, converted, rateVars>>

(***************************************************************************)
(* play_with_progress                                                      *)
(***************************************************************************)
\* Lines 199-207: the empty check, the one sampling, max_lines.
play_with_progress(f, intr) ==
    /\ pc = "idle"
    /\ IntrPossible(probe, intr)
    /\ mode' = "progress"
    /\ frames' = f
    /\ total_frames' = Len(f)
    /\ IF NoFrames(Len(f))
       THEN /\ intr = "none"
            /\ pc' = "done"
            /\ outcome' = "empty"
            /\ UNCHANGED <<terminal_width, terminal_height, max_lines,
                           interrupted, intr_at>>
       ELSE LET s == update_terminal_size(probe, intr, terminal_width, terminal_height)
            IN  /\ terminal_width' = s.w
                /\ terminal_height' = s.h
                /\ Delivered(intr, "sample")
                /\ IF s.raised
                   THEN /\ pc' = "done"
                        /\ outcome' = "propagated"
                        /\ UNCHANGED max_lines
                   ELSE /\ pc' = "redraw"
                        /\ max_lines' = s.h - 2
                        /\ UNCHANGED outcome
    /\ frame_index' = 0
    /\ UNCHANGED <<probe, loop, rendered, drawn, sleeps, slept, smp, negotiated, conv, converted, rateVars>>

\* Lines 211-222: the status line and the clipped frame body.  The size is
\* not sampled here; live_cols / live_rows record what a sampling at this
\* redraw would have stored.
progress_redraw(intr) ==
    /\ pc = "redraw"
    /\ Delivered(IF intr THEN "write" ELSE "none", "draw")
    /\ IF intr
       THEN /\ pc' = "done"
            /\ outcome' = "cancelled"
            /\ UNCHANGED <<rendered, drawn>>
       ELSE LET live == update_terminal_size(probe, "none", terminal_width,
                                             terminal_height)
            IN  /\ pc' = "psleep"
                /\ rendered' = Append(rendered, frame_index)
                /\ drawn' = [lines |-> ClipLines(frames[frame_index + 1], max_lines),
                             rows |-> terminal_height, cols |-> terminal_width,
                             index |-> frame_index + 1, total |-> total_frames,
                             live_cols |-> live.w, live_rows |-> live.h]
                /\ UNCHANGED outcome
    /\ UNCHANGED <<probe, terminal_width, terminal_height, mode, frames, loop,
                   total_frames, max_lines, frame_index, sleeps, slept, smp, negotiated, conv, converted, rateVars>>

\* Line 224 and the end of the for loop, with the handler of lines 226-227.
progress_sleep(intr) ==
    /\ pc = "psleep"
    /\ sleeps' = sleeps + 1
    /\ slept' = SleepArg
    /\ Delivered(IF intr THEN "sleep" ELSE "none", "sleep")
    /\ IF intr
       THEN /\ pc' = "done"
            /\ outcome' = "cancelled"
            /\ UNCHANGED frame_index
       ELSE /\ frame_index' = frame_index + 1
            /\ IF frame_index + 1 >= total_frames
               THEN /\ pc' = "done"
                    /\ outcome' = "exhausted"
               ELSE /\ pc' = "redraw"
                    /\ UNCHANGED outcome
    /\ UNCHANGED <<probe, terminal_width, terminal_height, mode, frames, loop,
                   total_frames, max_lines, rendered, drawn, smp, negotiated, conv, converted, rateVars>>

(***************************************************************************)
(* The playback specification                                              *)
(***************************************************************************)
Resize == ResizeWithin(PlayProbes)

Next ==
    \/ Resize
    \/ \E f \in FrameLists, lp \in BOOLEAN, intr \in SampleIntr : play(f, lp, intr)
    \/ \E intr \in RenderIntr : play_render(intr)
    \/ \E intr \in BOOLEAN : play_sleep(intr)
    \/ \E f \in FrameLists, intr \in SampleIntr : play_with_progress(f, intr)
    \/ \E intr \in BOOLEAN : progress_redraw(intr)
    \/ \E intr \in BOOLEAN : progress_sleep(intr)

Spec == Init /\ [][Next]_vars

(***************************************************************************)
(* Terminal-size sampling on its own: get_terminal_size under every        *)
(* combination of probe answers                                            *)
(***************************************************************************)
\* Lines 83-84; smp records the probe answers and the size stored before.
get_terminal_size(intr) ==
    /\ pc = "idle"
    /\ IntrPossible(probe, intr)
    /\ LET s == update_terminal_size(probe, intr, terminal_width, terminal_height)
       IN  /\ terminal_width' = s.w
           /\ terminal_height' = s.h
           /\ smp' = [done |-> TRUE, probe |-> probe, intr |-> intr,
                      w |-> terminal_width, h |-> terminal_height,
                      raised |-> s.raised]
    /\ UNCHANGED <<probe, playerVars, negotiated, conv, converted, rateVars>>

InitSample == InitWith(Probes, {<<>>}, {Identity}, {Hz(30)})

ProbeChange == ResizeWithin(Probes)

NextSample ==
    \/ ProbeChange
    \/ \E intr \in SampleIntr : get_terminal_size(intr)

SpecSample == InitSample /\ [][NextSample]_vars

(***************************************************************************)
(* Frame-size negotiation on its own                                       *)
(***************************************************************************)
\* Lines 86-118: sample the terminal, then compute the size.
calculate_frame_size(video_width, video_height) ==
    /\ pc = "idle"
    /\ ~negotiated.done
    /\ LET s == update_terminal_size(probe, "none", terminal_width, terminal_height)
           r == FrameSize(s.w, s.h, video_width, video_height)
       IN  /\ terminal_width' = s.w
           /\ terminal_height' = s.h
           /\ negotiated' = [done |-> TRUE, video_width |-> video_width,
                             video_height |-> video_height,
                             width |-> r.width, height |-> r.height]
    /\ UNCHANGED <<probe, playerVars, smp, conv, converted, rateVars>>

InitSize == InitWith(SizeProbes, {<<>>}, {Identity}, {Hz(30)})

NextSize == \E src \in Sources : calculate_frame_size(src[1], src[2])

SpecSize == InitSize /\ [][NextSize]_vars

(***************************************************************************)
(* The glyph lookup on its own                                             *)
(***************************************************************************)
GrayValues == 0..255

\* Lines 66-77: _pixel_to_char(gray_value)
pixel_to_char(gray_value) ==
    /\ LET char_index == CharIndex(gray_value, Len(conv.charset))
       IN  conv' = [conv EXCEPT !.done = TRUE, !.gray_value = gray_value,
                                !.char_index = char_index,
                                !.char = CharAt(conv.charset, char_index)]
    /\ UNCHANGED <<probe, terminal_width, terminal_height, playerVars, smp,
                   negotiated, converted, rateVars>>

NoTerminal == {[direct |-> Answer("unavailable", 0, 0),
                stty |-> Answer("fail", 0, 0),
                tput |-> Answer("fail", 0, 0)]}

InitRamp == InitWith(NoTerminal, Charsets, {Identity}, {Hz(30)})

NextRamp == \E v \in GrayValues : pixel_to_char(v)

SpecRamp == InitRamp /\ [][NextRamp]_vars

(***************************************************************************)
(* The frame rate on its own: construction with any rate, then set_fps     *)
(***************************************************************************)
\* Lines 229-236
set_fps(rate) ==
    /\ pc = "idle"
    /\ fps' = ClampRate(rate)
    /\ frame_duration' = Interval(fps')
    /\ fps_call' = [done |-> TRUE, requested |-> rate]
    /\ UNCHANGED <<probe, terminal_width, terminal_height, playerVars, smp,
                   negotiated, conv, converted>>

\* __init__ with fps = 0 raises ZeroDivisionError at line 23: no player exists.
InitRate == InitWith(NoTerminal, {<<>>}, {Identity}, Rates \ {0})

NextRate == \E rate \in Rates : set_fps(rate)

SpecRate == InitRate /\ [][NextRate]_vars

(***************************************************************************)
(* The contrast step and the lookup of one sample                          *)
(***************************************************************************)
Lumas == 0..255

\* Lines 50-62 (and 101-112) for one sample of the grayscale array.
convert_sample(luma) ==
    /\ LET adjusted == Adjust(luma, conv.contrast)
           char_index == HalfCharIndex(adjusted, Len(conv.charset))
       IN  conv' = [conv EXCEPT !.sampled = TRUE, !.luma = luma,
                                !.adjusted = adjusted,
                                !.char_index = char_index,
                                !.char = CharAt(conv.charset, char_index)]
    /\ UNCHANGED <<probe, terminal_width, terminal_height, playerVars, smp,
                   negotiated, converted, rateVars>>

InitContrast == InitWith(NoTerminal, {<<>>}, Contrasts, {Hz(30)})

NextContrast == \E luma \in Lumas : convert_sample(luma)

SpecContrast == InitContrast /\ [][NextContrast]_vars

(***************************************************************************)
(* The size of a conversion                                                *)
(***************************************************************************)
\* The width arguments, 0 included.
Widths == 0..MaxWidth

\* Lines 23-64
convert_frame(img_width, img_height, width) ==
    /\ ~converted.done
    /\ converted' = Converted("frame", width, img_width, img_height)
    /\ UNCHANGED <<probe, terminal_width, terminal_height, playerVars, smp,
                   negotiated, conv, rateVars>>

\* Lines 79-114
convert_image(img_width, img_height, width) ==
    /\ ~converted.done
    /\ converted' = Converted("image", width, img_width, img_height)
    /\ UNCHANGED <<probe, terminal_width, terminal_height, playerVars, smp,
                   negotiated, conv, rateVars>>

InitConvert == InitWith(NoTerminal, {<<>>}, {Identity}, {Hz(30)})

NextConvert ==
    \/ \E src \in Sources, width \in Widths : convert_frame(src[1], src[2], width)
    \/ \E src \in Sources, width \in Widths : convert_image(src[1], src[2], width)

SpecConvert == InitConvert /\ [][NextConvert]_vars

(***************************************************************************)
(* Properties                                                              *)
(***************************************************************************)
InOrder == \A j \in 1..Len(rendered) : rendered[j] = (j - 1) % total_frames

\* C1 (as stated): for every terminal with columns > 0 and rows > 0 and every
\* source size, calculate_frame_size returns width >= 20, height >= 10 and
\* height <= floor(0.9 * rows), all three at once.
C1_AllThreeAtOnce ==
    (negotiated.done /\ terminal_width > 0 /\ terminal_height > 0) =>
        /\ negotiated.width >= 20
        /\ negotiated.height >= 10
        /\ negotiated.height <= (9 * terminal_height) \div 10

\* C1 (amended): for every terminal with columns > 0 and rows > 0 and every
\* source size, calculate_frame_size returns width >= 20 and height >= 10, and
\* height <= max(10, floor(0.9 * rows)): the ceiling of 90% of the rows holds
\* exactly when it is at least the minimum height 10.
C1_FloorThenCeiling ==
    (negotiated.done /\ terminal_width > 0 /\ terminal_height > 0) =>
        /\ negotiated.width >= 20
        /\ negotiated.height >= 10
        /\ negotiated.height <= Max(10, (9 * terminal_height) \div 10)
        /\ ((9 * terminal_height) \div 10 >= 10 =>
                negotiated.height <= (9 * terminal_height) \div 10)

\* C1 witness: a tall source on a 24-row terminal, where the 90% ceiling binds.
C1_Witness ==
    /\ negotiated.done
    /\ terminal_height = 24
    /\ negotiated.video_width = 9
    /\ negotiated.video_height = 16
    /\ negotiated.height = 21

\* C2 (as stated): once an interrupt has been delivered after play was entered
\* with a non-empty frame list, play is Stopped by cancellation: it has
\* returned normally, the interrupt did not leave play, nothing is rendered
\* afterwards.
C2_InterruptStopsPlay ==
    (mode = "play" /\ interrupted) => (pc = "done" /\ outcome = "cancelled")

\* C3: an interrupt delivered during the sleep that follows the draw of frame k
\* of N halts play: play has returned, Stopped by cancellation, and the frames
\* rendered are exactly frames 1..k of the current pass, in order (exactly
\* 1..k when not looping), none of k+1..N after it.
C3_SleepInterruptHalts ==
    (mode = "play" /\ intr_at = "sleep") =>
        /\ pc = "done"
        /\ outcome = "cancelled"
        /\ InOrder
        /\ Len(rendered) >= 1
        /\ rendered[Len(rendered)] = frame_index
        /\ sleeps = Len(rendered)
        /\ (~loop => rendered = [j \in 1..(frame_index + 1) |-> j - 1])

\* C3 witness: the interrupt arrives in the sleep after frame 2 of 3; frame 3
\* is never rendered.
C3_Witness ==
    /\ mode = "play"
    /\ intr_at = "sleep"
    /\ ~loop
    /\ total_frames = 3
    /\ rendered = <<0, 1>>
    /\ pc = "done"

\* C4 (as stated): in every iteration of play the number of frame lines drawn
\* is at most terminalRows - 1 for the terminalRows sampled in that iteration.
C4_ClippedToSampledRows ==
    (mode = "play" /\ Len(rendered) > 0) => drawn.lines <= drawn.rows - 1

\* C5 (as stated): first success wins.  When the direct query succeeds its
\* result is the one stored; the external command's result is used only when
\* the direct query is unavailable; 80x24 only when both fail.
C5_FirstSuccessWins ==
    (smp.done /\ smp.intr = "none") =>
        LET p == smp.probe
            ext == get_size(p, "none")
        IN  /\ p.direct.kind = "ok" =>
                    (terminal_width = p.direct.a /\ terminal_height = p.direct.b)
            /\ (p.direct.kind # "ok" /\ ext.some) =>
                    (terminal_width = ext.cols /\ terminal_height = ext.rows)
            /\ (p.direct.kind # "ok" /\ ~ext.some) =>
                    (terminal_width = 80 /\ terminal_height = 24)

\* C5 (amended): the probes run in the order direct query, stty, tput, and the
\* last success wins.  A pair from stty is stored whatever the direct query
\* answered; a pair from tput is stored when stty gave none; the direct
\* query's result is stored only when neither external command gave a pair;
\* 80x24 is stored when the direct query reports its fallback and both
\* external commands fail; when the direct query raises and both external
\* commands fail the size stored before is kept.
C5_LastSuccessWins ==
    (smp.done /\ smp.intr = "none") =>
        LET p == smp.probe
        IN  /\ p.stty.kind = "ok" =>
                    (terminal_width = p.stty.b /\ terminal_height = p.stty.a)
            /\ (p.stty.kind # "ok" /\ p.tput.kind = "ok") =>
                    (terminal_width = p.tput.b /\ terminal_height = p.tput.a)
            /\ (p.stty.kind # "ok" /\ p.tput.kind # "ok") =>
                    /\ p.direct.kind = "ok" =>
                        (terminal_width = p.direct.a /\ terminal_height = p.direct.b)
                    /\ p.direct.kind = "unavailable" =>
                        (terminal_width = 80 /\ terminal_height = 24)
                    /\ p.direct.kind = "raise" =>
                        (terminal_width = smp.w /\ terminal_height = smp.h)

\* C5 witness: the direct query answered 5x3, stty answered 2 rows by 6
\* columns, and 6x2 is what is stored.
C5_Witness ==
    /\ smp.done
    /\ smp.intr = "none"
    /\ smp.probe.direct = Answer("ok", 5, 3)
    /\ smp.probe.stty = Answer("ok", 2, 6)
    /\ terminal_width = 6
    /\ terminal_height = 2

\* C6 (as stated): after any sequence of samplings, whatever the probes
\* answer, the stored size has columns > 0 and rows > 0.
C6_PositiveSize == terminal_width > 0 /\ terminal_height > 0

\* C7: without cancellation play renders the frame indices in strictly
\* increasing order, none skipped or repeated; with loop = false it renders
\* each of the N frames once and then is Stopped; with loop = true the index
\* wraps from N-1 to 0 and play is Stopped only through an interrupt.
C7_StrictOrder ==
    /\ (mode = "play" /\ ~interrupted) =>
        /\ InOrder
        /\ ~loop => Len(rendered) <= total_frames
        /\ (pc = "done" /\ total_frames > 0) =>
                (~loop /\ outcome = "exhausted" /\ Len(rendered) = total_frames)
        /\ (~loop /\ total_frames > 0 /\ Len(rendered) = total_frames) =>
                pc \in {"sleep", "done"}
        /\ pc = "render" => frame_index = Len(rendered) % total_frames
        /\ pc = "sleep" => frame_index = (Len(rendered) - 1) % total_frames
    /\ (mode = "play" /\ loop /\ total_frames > 0 /\ pc = "done") => interrupted

\* C7 witness: three frames played to the end without an interrupt.
C7_Witness ==
    /\ mode = "play"
    /\ ~interrupted
    /\ ~loop
    /\ pc = "done"
    /\ outcome = "exhausted"
    /\ rendered = <<0, 1, 2>>

\* C8: play and play_with_progress on an empty frame list return at once:
\* nothing is rendered and no sleep is performed, for either loop flag.
C8_EmptyIsNoOp ==
    (mode # "none" /\ total_frames = 0) =>
        /\ pc = "done"
        /\ outcome = "empty"
        /\ rendered = <<>>
        /\ drawn = NoDraw
        /\ sleeps = 0

\* C8 witness: play([], loop = True) has returned.
C8_Witness ==
    /\ mode = "play"
    /\ loop
    /\ frames = <<>>
    /\ pc = "done"
    /\ outcome = "empty"

\* C9 (as stated): on every redraw of play_with_progress the status line
\* reports the 1-based frame index, the total, and the terminal size as it is
\* at that redraw, and the body is clipped to rows - 2 of that live size.
C9_StatusIsLive ==
    (mode = "progress" /\ Len(rendered) > 0) =>
        /\ drawn.index = rendered[Len(rendered)] + 1
        /\ drawn.total = total_frames
        /\ drawn.cols = drawn.live_cols
        /\ drawn.rows = drawn.live_rows
        /\ drawn.lines <= drawn.live_rows - 2

\* C10: for every ramp of length N >= 1 and every v in 0..255 the glyph index
\* is in 0..N-1, and the index of every v1 <= v is at most the index of v.
C10_IndexInRangeMonotone ==
    conv.done =>
        LET n == Len(conv.charset)
        IN  /\ n >= 1
            /\ 0 <= conv.char_index
            /\ conv.char_index < n
            /\ \A v1 \in 0..conv.gray_value :
                    /\ (v1 * n) \div 256 <= conv.char_index
                    /\ CharIndex(v1, n) <= conv.char_index

\* C10 witness: the brightest value on a ramp of three glyphs maps to the last.
C10_Witness ==
    /\ conv.done
    /\ Len(conv.charset) = 3
    /\ conv.gray_value = 255
    /\ conv.char_index = 2

\* C11 (as stated): with the default ramp and contrast 1.0, value 0 maps to
\* ' ', value 255 maps to '@', and value 128 maps to index 5, the glyph '*'.
C11_ScenarioAStar ==
    (conv.done /\ conv.charset = DEFAULT_CHARSET /\ conv.contrast = Identity) =>
        /\ conv.gray_value = 0 => conv.char = " "
        /\ conv.gray_value = 255 => conv.char = "@"
        /\ conv.gray_value = 128 => (conv.char_index = 5 /\ conv.char = "*")

\* C11 (amended): with the default ramp and contrast 1.0, value 0 maps to ' ',
\* value 255 maps to '@', and value 128 maps to index 5, which is the glyph
\* '+' ('*' is at index 6).
C11_ScenarioAPlus ==
    (conv.done /\ conv.charset = DEFAULT_CHARSET /\ conv.contrast = Identity) =>
        /\ conv.gray_value = 0 => (conv.char_index = 0 /\ conv.char = " ")
        /\ conv.gray_value = 255 => (conv.char_index = 9 /\ conv.char = "@")
        /\ conv.gray_value = 128 => (conv.char_index = 5 /\ conv.char = "+")

\* C11 witness: the lookup of 128 on the default ramp has answered '+'.
C11_Witness ==
    /\ conv.done
    /\ conv.charset = <<" ", ".", ":", "-", "=", "+", "*", "#", "%", "@">>
    /\ conv.gray_value = 128
    /\ conv.char = "+"

\* C12 (as stated): for every sample luma in 0..255 and every contrast, the
\* value handed to the glyph lookup is clamp((luma - 128) * contrast + 128,
\* 0, 255) with luma - 128 signed; with contrast 1.0 it is luma.  (Values in
\* halves: contrast c / 2, result adjusted / 2.)
C12_SignedContrast ==
    conv.sampled =>
        /\ conv.adjusted =
              Clip((conv.luma - 128) * conv.contrast + 2 * 128, 0, 2 * 255)
        /\ conv.contrast = 2 => conv.adjusted = 2 * conv.luma

\* C13 (as stated): for every image with width > 0 and height > 0 and every
\* targetWidth >= 1, convert succeeds: the target height is >= 1 and the
\* result has exactly targetHeight lines of targetWidth glyphs.
C13_AlwaysConverts ==
    (converted.done /\ converted.entry = "frame" /\ converted.img_width > 0
        /\ converted.img_height > 0 /\ converted.width >= 1) =>
        /\ converted.height >= 1
        /\ ~converted.raised
        /\ converted.lines = converted.height
        /\ converted.line_len = converted.width

\* C14: for every requested rate (below 1, in [1, 60], above 60, 0 and
\* negative included) set_fps stores min(max(fps, 1), 60) and leaves the frame
\* interval equal to 1 / (stored rate).  (Rates in halves: 2 is 1 fps.)
C14_ClampedRate ==
    fps_call.done =>
        LET r == fps_call.requested
        IN  /\ r < 2 => fps = 2
            /\ r > 120 => fps = 120
            /\ (r >= 2 /\ r <= 120) => fps = r
            /\ frame_duration.den # 0
            /\ frame_duration.num * fps = 2 * frame_duration.den

\* C14 witness: set_fps(-2.0) has stored 1 fps and an interval of one second.
C14_Witness ==
    /\ fps_call.done
    /\ fps_call.requested = 0 - 4
    /\ fps = 2
    /\ frame_duration.num = frame_duration.den

RawHeight ==
    Min(HeightFor(Pct70(terminal_width), negotiated.video_width,
                  negotiated.video_height),
        Pct90(terminal_height))

\* C15 (as stated): when calculate_frame_size raises the derived height to
\* the minimum 10, the returned height is >= 10 and the returned width is
\* floor(height / (aspectRatio * 0.5)) of that final height, floored at 20.
C15_WidthRecomputedFromFloor ==
    (negotiated.done /\ terminal_width > 0 /\ terminal_height > 0
        /\ RawHeight < 10) =>
        /\ negotiated.height >= 10
        /\ negotiated.width =
              Max((2 * negotiated.height * negotiated.video_width)
                      \div negotiated.video_height, 20)

\* C15 (amended): when calculate_frame_size raises the derived height to the
\* minimum 10, the returned height is 10 and the returned width is the width
\* computed before that floor was applied (70% of the columns, or the width
\* recomputed from the 90% ceiling when the ceiling bound first), floored at
\* 20; it is not recomputed from the final height.
C15_WidthFromBeforeFloor ==
    (negotiated.done /\ terminal_width > 0 /\ terminal_height > 0
        /\ RawHeight < 10) =>
        LET w70 == Pct70(terminal_width)
            h70 == (w70 * negotiated.video_height) \div (2 * negotiated.video_width)
            ceil == (9 * terminal_height) \div 10
        IN  /\ negotiated.height = 10
            /\ h70 <= ceil => negotiated.width = Max(w70, 20)
            /\ h70 > ceil =>
                  negotiated.width =
                      Max((2 * ceil * negotiated.video_width)
                              \div negotiated.video_height, 20)

\* C15 witness: terminal 40x10 and a 1920x1080 source give (28, 10).
C15_Witness ==
    /\ negotiated.done
    /\ terminal_width = 40
    /\ terminal_height = 10
    /\ negotiated.video_width = 1920
    /\ negotiated.video_height = 1080
    /\ negotiated.width = 28
    /\ negotiated.height = 10

\* C16 (as stated): the number of rows the converter resamples to is
\* round(targetWidth * (image.height / image.width) * 0.5), the nearest
\* integer, in convert_frame and in convert_image.
C16_RowsRounded ==
    (converted.done /\ converted.width >= 1) =>
        LET n == converted.width * converted.img_height
            d == 2 * converted.img_width
        IN  /\ 2 * d * converted.height >= 2 * n - d
            /\ 2 * d * converted.height <= 2 * n + d

\* C16 (amended): the number of rows the converter resamples to is
\* int(targetWidth * (image.height / image.width) * 0.5), the value truncated
\* (the floor, the product being non-negative) and not the nearest integer,
\* in convert_frame and in convert_image.
C16_RowsTruncated ==
    (converted.done /\ converted.width >= 1) =>
        LET n == converted.width * converted.img_height
            d == 2 * converted.img_width
        IN  /\ converted.entry \in {"frame", "image"}
            /\ d * converted.height <= n
            /\ n < d * (converted.height + 1)

\* C16 witness: convert_image of a 1920x1080 image at width 35 resamples to
\* 9 rows (the product is 9.84375).
C16_Witness ==
    /\ converted.done
    /\ converted.entry = "image"
    /\ converted.img_width = 1920
    /\ converted.img_height = 1080
    /\ converted.width = 35
    /\ converted.height = 9

\* C17: in play and play_with_progress every render is followed by exactly
\* one sleep of the nominal frame interval 1 / fps before the next render or
\* the end of the loop, the last frame of a non-looping play included.
C17_OneSleepPerRender ==
    mode # "none" =>
        /\ pc \in {"sleep", "psleep"} => sleeps = Len(rendered) - 1
        /\ pc \notin {"sleep", "psleep"} => sleeps = Len(rendered)
        /\ sleeps > 0 =>
              /\ slept = frame_duration
              /\ slept.den # 0
              /\ slept.num * fps = 2 * slept.den

\* C17 witness: three frames played to the end, three sleeps of 1/30 s.
C17_Witness ==
    /\ mode = "play"
    /\ pc = "done"
    /\ outcome = "exhausted"
    /\ Len(rendered) = 3
    /\ sleeps = 3
    /\ fps = 60
    /\ slept = [num |-> 2, den |-> 60]

\* C18 (as stated): in every reachable TerminalPlayer state, after
\* construction with any fps and after any set_fps calls, the stored rate is
\* in [1, 60] and frame_duration = 1 / fps.
C18_RateAlwaysInRange ==
    /\ fps >= 2
    /\ fps <= 120
    /\ frame_duration.num * fps = 2 * frame_duration.den

====
